---------------------------- MODULE Spec2Model ----------------------------
(***************************************************************************)
(* The interactive table of adalat-assignment: the App component that      *)
(* fetches the users and the AdvancedTable component that filters, sorts,  *)
(* paginates and exports them through @tanstack/react-table.               *)
(*                                                                         *)
(* A JavaScript string is a sequence of one-character strings, a number a  *)
(* natural number.  A row model of the table library is the sequence of    *)
(* the row indices (row.index, 1-based here) it holds, in its order.       *)
(***************************************************************************)
EXTENDS Integers, Sequences, FiniteSets, TLC

\* ---------------------------------------------------------------- bounds

\* The largest number of users a fetched payload holds.
MaxUsers == 11

\* ------------------------------------------------------- strings, numbers

\* The characters of the model, in the order of their UTF-16 code units.
AsciiChars ==
  << " ", "0", "1", "2", "3", "4", "5", "6", "7", "8", "9",
     "A", "B", "C", "D", "E", "F", "G", "H", "I", "J", "K", "L", "M",
     "N", "O", "P", "Q", "R", "S", "T", "U", "V", "W", "X", "Y", "Z",
     "a", "b", "c", "d", "e", "f", "g", "h", "i", "j", "k", "l", "m",
     "n", "o", "p", "q", "r", "s", "t", "u", "v", "w", "x", "y", "z" >>

\* The code unit of the character at position i of AsciiChars:
\* " " is 32, "0" is 48, "A" is 65, "a" is 97.
CodeAt(i) ==
  IF i = 1 THEN 32 ELSE IF i <= 11 THEN 46 + i ELSE IF i <= 37 THEN 53 + i ELSE 59 + i

CharSet == { AsciiChars[i] : i \in DOMAIN AsciiChars }

\* String.prototype.charCodeAt for a one-character string.
CharCode == [ c \in CharSet |-> CodeAt(CHOOSE i \in DOMAIN AsciiChars : AsciiChars[i] = c) ]

\* String.fromCharCode, on the codes of the model's characters.
FromCharCode(n) == CHOOSE c \in CharSet : CharCode[c] = n

\* String.prototype.toLowerCase: "A".."Z" (65..90) map to "a".."z" (97..122).
LowerChar == [ c \in CharSet |-> IF CharCode[c] \in 65..90 THEN FromCharCode(CharCode[c] + 32) ELSE c ]

toLowerCase(s) == [ i \in 1..Len(s) |-> LowerChar[s[i]] ]

\* Number.prototype.toString for a natural number: its decimal digits.
RECURSIVE NumToString(_)
NumToString(n) ==
  IF n < 10 THEN << FromCharCode(48 + n) >>
  ELSE NumToString(n \div 10) \o << FromCharCode(48 + (n % 10)) >>

\* String.prototype.includes: t occurs in s as a contiguous substring.
includes(s, t) ==
  \E i \in 0..(Len(s) - Len(t)) : SubSeq(s, i + 1, i + Len(t)) = t

\* The JavaScript relation a > b on two strings: by code units, a proper
\* prefix being the smaller.
RECURSIVE StrGreater(_, _)
StrGreater(a, b) ==
  IF a = << >> THEN FALSE
  ELSE IF b = << >> THEN TRUE
  ELSE IF a[1] # b[1] THEN CharCode[a[1]] > CharCode[b[1]]
  ELSE StrGreater(Tail(a), Tail(b))

Min(a, b) == IF a < b THEN a ELSE b
Max(a, b) == IF a > b THEN a ELSE b

\* Array.prototype.slice(start, end) on a sequence, start and end 0-based.
Slice(s, start, end) == SubSeq(s, start + 1, Min(end, Len(s)))

\* ------------------------------------------------------------ App: data

\* The fields of RowData that hold a number; the others hold a string.
NumberFields == { "age" }

\* The column definitions App passes to AdvancedTable.
Columns ==
  << [ accessorKey |-> "name",    header |-> "Name" ],
     [ accessorKey |-> "age",     header |-> "Age" ],
     [ accessorKey |-> "city",    header |-> "City" ],
     [ accessorKey |-> "country", header |-> "Country" ] >>

Headers == { Columns[k].header : k \in DOMAIN Columns }

\* The users the remote source serves, in its order: user i of the payload.
FirstNames == << <<"B","o","b">>, <<"A","l">>, <<"C","y">>, <<"D","i">>, <<"E","d">> >>
LastNames  == << <<"R","a","y">>, <<"P","o","e">>, <<"O","r","r">> >>
Ages       == << 30, 25, 25, 41 >>
Cities     == << <<"O","s","l","o">>, <<"L","a"," ","P","a","z">>, <<"B","e","r","n">> >>
Countries  == << <<"P","e","r","u">>, <<"F","i","j","i">> >>

Pick(table, i) == table[((i - 1) % Len(table)) + 1]

User(i) ==
  [ firstName |-> Pick(FirstNames, i),
    lastName  |-> Pick(LastNames, i),
    age       |-> Pick(Ages, i),
    address   |-> [ city |-> Pick(Cities, i), country |-> Pick(Countries, i) ] ]

\* The payloads json.users may hold: the first n users, n one of these sizes.
PayloadSizes == { 3, MaxUsers }
Payload(n) == [ i \in 1..n |-> User(i) ]

\* An object without one of its properties.
Without(obj, prop) == [ k \in DOMAIN obj \ { prop } |-> obj[k] ]

\* `${obj[prop]}`: the characters of the property, of undefined when the
\* object has no such property.
TemplateValue(obj, prop) ==
  IF prop \in DOMAIN obj THEN obj[prop] ELSE << "u", "n", "d", "e", "f", "i", "n", "e", "d" >>

\* App's conversion of one fetched user to a row.  A property the user does
\* not have reads as undefined: the row's field is undefined, which is the
\* field not being in the row's domain here.  The user has an address.
FormatUser(user) ==
  LET defined == { "name" }
                   \cup (IF "age" \in DOMAIN user THEN { "age" } ELSE {})
                   \cup (IF "city" \in DOMAIN user.address THEN { "city" } ELSE {})
                   \cup (IF "country" \in DOMAIN user.address THEN { "country" } ELSE {})
  IN  [ key \in defined |->
          CASE key = "name"    -> TemplateValue(user, "firstName") \o << " " >>
                                    \o TemplateValue(user, "lastName")
            [] key = "age"     -> user.age
            [] key = "city"    -> user.address.city
            [] key = "country" -> user.address.country ]

\* A conversion that loses the last user.
formattedDataPartial(users) == [ i \in 1..(Len(users) - 1) |-> FormatUser(users[i]) ]

formattedData(users) == [ i \in 1..Len(users) |-> FormatUser(users[i]) ]

\* user.address.city of a user without an address throws a TypeError, and
\* with it json.users.map and the callback of then.
ConversionThrows(users) == \E i \in DOMAIN users : "address" \notin DOMAIN users[i]

\* The users converted before the one whose conversion throws.
ConvertedBeforeThrow(users) ==
  LET first == CHOOSE i \in DOMAIN users :
                 /\ "address" \notin DOMAIN users[i]
                 /\ \A j \in 1..(i - 1) : "address" \in DOMAIN users[j]
  IN  SubSeq(users, 1, first - 1)

\* A callback that hands the table the rows converted before the throw.
thenCallbackKeepsConverted(prev, users) ==
  IF ConversionThrows(users)
  THEN formattedData(ConvertedBeforeThrow(users))
  ELSE formattedData(users)

\* The callback of then((json) => ...): the row set after it, prev when the
\* conversion throws before setData is reached.
thenCallback(prev, users) ==
  IF ConversionThrows(users) THEN prev ELSE formattedData(users)

\* --------------------------------------- the table library: column values

\* The columns the table is given: columns.filter(col => visibleColumns.has(col.header)).
TableColumns(cols, visible) == SelectSeq(cols, LAMBDA col : col.header \in visible)

\* A column's id is its accessorKey.
ColumnIds(cols) == { cols[k].accessorKey : k \in DOMAIN cols }

\* Every value a column holds in some payload.
ColumnValues(columnId) ==
  { formattedData(Payload(MaxUsers))[i][columnId] : i \in 1..MaxUsers }

\* The texts typed into the search box.
FilterTexts == { << >>, << " " >>, << "2", "5" >>, << "B", "O" >> }

\* value.toString() of a cell value: the digits of a number, the string itself.
ValueToString(value, columnId) ==
  IF columnId \in NumberFields THEN NumToString(value) ELSE value

\* ------------------------------------------------ getFilteredRowModel

\* filterFns.includesString, the global filter function the table resolves:
\* the lower-cased string form of the value includes the lower-cased search.
includesStringFn(value, columnId, filterValue) ==
  includes(toLowerCase(ValueToString(value, columnId)), toLowerCase(filterValue))

\* includesStringFn tabulated once over the values a column holds and the
\* texts typed, and read from the table for a row.
includesStringTable ==
  [ columnId \in ColumnIds(Columns) |->
      [ value \in ColumnValues(columnId) |->
          [ filterValue \in FilterTexts |-> includesStringFn(value, columnId, filterValue) ] ] ]

includesString(row, columnId, filterValue) ==
  includesStringTable[columnId][row[columnId]][filterValue]

\* getColumnCanGlobalFilter: the column's value in the first core row is a
\* string or a number.  Every field of RowData is one, so the column takes
\* part as soon as there is a first row.
getCanGlobalFilter(d, col) == Len(d) > 0

\* The core row model: every row of data, in data's order.
getCoreRowModel(d) == [ i \in 1..Len(d) |-> i ]

\* A filtered row model that always filters: it never returns the core row
\* model unfiltered, so with no column to search no row passes.
getFilteredRowModelAlwaysFilters(d, cols, filterText) ==
  SelectSeq(getCoreRowModel(d),
            LAMBDA i : \E k \in DOMAIN cols : includesString(d[i], cols[k].accessorKey, filterText))

\* The filtered row model.  No rows or a falsy (empty) globalFilter: the core
\* row model as it is.  No column that can be filtered globally: no row is
\* flagged, so every row passes.  Otherwise a row passes when one of the
\* columns matches.
getFilteredRowModel(d, cols, filterText) ==
  IF Len(d) = 0 \/ filterText = << >> THEN getCoreRowModel(d)
  ELSE LET globallyFilterableColumns == SelectSeq(cols, LAMBDA col : getCanGlobalFilter(d, col))
       IN  IF Len(globallyFilterableColumns) = 0 THEN getCoreRowModel(d)
           ELSE SelectSeq(getCoreRowModel(d),
                          LAMBDA i : \E k \in DOMAIN globallyFilterableColumns :
                                       includesString(d[i], globallyFilterableColumns[k].accessorKey, filterText))

\* --------------------------------------------------- getSortedRowModel

\* compareBasic: a === b ? 0 : a > b ? 1 : -1, on two numbers or two strings.
compareBasic(a, b, isNumber) ==
  IF a = b THEN 0
  ELSE IF (IF isNumber THEN a > b ELSE StrGreater(a, b)) THEN 1 ELSE -1

\* column.getAutoSortingFn: it reads flatRows.slice(10) of the filtered rows
\* and answers sortingFns.text when one of them holds a string in the column,
\* sortingFns.basic otherwise (no string of the model holds a digit, which
\* would select sortingFns.alphanumeric).
getAutoSortingFn(filtered, columnId) ==
  IF Len(Slice(filtered, 10, Len(filtered))) > 0 /\ columnId \notin NumberFields
  THEN "text" ELSE "basic"

\* sortingFns.text compares the lower-cased strings, sortingFns.basic the
\* values as they are.
sortingFnOf(fn, a, b, columnId) ==
  IF fn = "text"
  THEN compareBasic(toLowerCase(a), toLowerCase(b), FALSE)
  ELSE compareBasic(a, b, columnId \in NumberFields)

\* sortingFnOf tabulated once over the pairs of values a column holds.
sortingFnTable ==
  [ fn \in { "text", "basic" } |->
      [ columnId \in ColumnIds(Columns) |->
          [ pair \in ColumnValues(columnId) \X ColumnValues(columnId) |->
              IF fn = "text" /\ columnId \in NumberFields THEN 0
              ELSE sortingFnOf(fn, pair[1], pair[2], columnId) ] ] ]

\* The column's sorting function applied to two rows.
sortingFn(fn, rowA, rowB, columnId) ==
  sortingFnTable[fn][columnId][<< rowA[columnId], rowB[columnId] >>]

\* availableSorting: the sort entries whose column the table holds and can sort.
availableSorting(sorting, cols) ==
  SelectSeq(sorting, LAMBDA entry : entry.id \in ColumnIds(cols))

\* A comparator that leaves rows no entry tells apart as equal.
RECURSIVE compareRowsNoTieBreak(_, _, _, _, _)
compareRowsNoTieBreak(d, filtered, entries, a, b) ==
  IF entries = << >> THEN 0
  ELSE LET entry   == entries[1]
           sortInt == sortingFn(getAutoSortingFn(filtered, entry.id), d[a], d[b], entry.id)
       IN  IF sortInt # 0 THEN (IF entry.desc THEN -sortInt ELSE sortInt)
           ELSE compareRowsNoTieBreak(d, filtered, Tail(entries), a, b)

\* The comparator of sortData: the first entry that tells the rows apart
\* decides, negated when the entry is descending; rows no entry tells apart
\* compare by row index.
RECURSIVE compareRows(_, _, _, _, _)
compareRows(d, filtered, entries, a, b) ==
  IF entries = << >> THEN a - b
  ELSE LET entry   == entries[1]
           sortInt == sortingFn(getAutoSortingFn(filtered, entry.id), d[a], d[b], entry.id)
       IN  IF sortInt # 0 THEN (IF entry.desc THEN -sortInt ELSE sortInt)
           ELSE compareRows(d, filtered, Tail(entries), a, b)

\* Array.prototype.sort under that comparator, a strict total order on the
\* rows: the one ordering of the rows it allows.
RECURSIVE insertRow(_, _, _, _, _)
insertRow(d, filtered, entries, x, s) ==
  IF s = << >> THEN << x >>
  ELSE IF compareRows(d, filtered, entries, x, s[1]) < 0 THEN << x >> \o s
  ELSE << s[1] >> \o insertRow(d, filtered, entries, x, Tail(s))

RECURSIVE sortData(_, _, _, _)
sortData(d, filtered, entries, rows) ==
  IF rows = << >> THEN << >>
  ELSE insertRow(d, filtered, entries, rows[1], sortData(d, filtered, entries, Tail(rows)))

Reverse(s) == [ i \in 1..Len(s) |-> s[Len(s) + 1 - i] ]

\* A sorted row model that sorts every entry ascending and, when the first
\* entry is descending, reverses the sorted list.
getSortedRowModelReversesList(d, filtered, sorting, cols) ==
  IF Len(filtered) = 0 \/ Len(sorting) = 0 THEN filtered
  ELSE LET entries   == availableSorting(sorting, cols)
           ascending == [ k \in DOMAIN entries |-> [ entries[k] EXCEPT !.desc = FALSE ] ]
           sorted    == sortData(d, filtered, ascending, filtered)
       IN  IF entries # << >> /\ entries[1].desc THEN Reverse(sorted) ELSE sorted

\* A sorted row model that, given no sort entry, sorts by the first column.
getSortedRowModelDefaultSort(d, filtered, sorting, cols) ==
  IF Len(filtered) = 0 \/ Len(cols) = 0 THEN filtered
  ELSE LET entries == IF Len(sorting) = 0
                      THEN << [ id |-> cols[1].accessorKey, desc |-> FALSE ] >>
                      ELSE availableSorting(sorting, cols)
       IN  sortData(d, filtered, entries, filtered)

\* The sorted row model: the filtered rows as they are when there is no row
\* or no sort entry, sorted by the available entries otherwise.
getSortedRowModel(d, filtered, sorting, cols) ==
  IF Len(filtered) = 0 \/ Len(sorting) = 0 THEN filtered
  ELSE sortData(d, filtered, availableSorting(sorting, cols), filtered)

\* -------------------------------------------------- column.toggleSorting

\* column.getIsSorted: "asc", "desc", or "none" for false.
getIsSorted(sorting, columnId) ==
  IF \E k \in DOMAIN sorting : sorting[k].id = columnId
  THEN LET k == CHOOSE k \in DOMAIN sorting : sorting[k].id = columnId
       IN  IF sorting[k].desc THEN "desc" ELSE "asc"
  ELSE "none"

\* column.getFirstSortDir through getAutoSortDir: "asc" when the first
\* filtered row holds a string in the column, "desc" otherwise.
getFirstSortDir(filtered, columnId) ==
  IF Len(filtered) > 0 /\ columnId \notin NumberFields THEN "asc" ELSE "desc"

\* column.getNextSortingOrder, sorting removal being enabled.
getNextSortingOrder(filtered, sorting, columnId) ==
  LET firstSortDirection == getFirstSortDir(filtered, columnId)
      isSorted           == getIsSorted(sorting, columnId)
  IN  IF isSorted = "none" THEN firstSortDirection
      ELSE IF isSorted # firstSortDirection THEN "none"
      ELSE IF isSorted = "desc" THEN "asc" ELSE "desc"

\* The sorting state column.toggleSorting(undefined, multi) sets.
toggleSorting(filtered, old, columnId, multi) ==
  LET nextSortingOrder == getNextSortingOrder(filtered, old, columnId)
      existing   == \E k \in DOMAIN old : old[k].id = columnId
      isLast     == Len(old) > 0 /\ old[Len(old)].id = columnId
      nextDesc   == nextSortingOrder = "desc"
      sortAction ==
        IF Len(old) > 0 /\ multi
        THEN (IF existing THEN "toggle" ELSE "add")
        ELSE IF Len(old) > 0 /\ ~isLast THEN "replace"
        ELSE IF existing THEN "toggle" ELSE "replace"
      action == IF sortAction = "toggle" /\ nextSortingOrder = "none" THEN "remove" ELSE sortAction
  IN  CASE action = "add"    -> Append(old, [ id |-> columnId, desc |-> nextDesc ])
        [] action = "toggle" -> [ k \in DOMAIN old |->
                                   IF old[k].id = columnId THEN [ old[k] EXCEPT !.desc = nextDesc ] ELSE old[k] ]
        [] action = "remove" -> SelectSeq(old, LAMBDA entry : entry.id # columnId)
        [] OTHER             -> << [ id |-> columnId, desc |-> nextDesc ] >>

\* ------------------------------------------------------------ pagination

\* table.getRowCount: the rows before pagination.
getRowCount(sorted) == Len(sorted)

\* table.getPageCount: Math.ceil(rowCount / pageSize).
getPageCount(sorted, p) == (getRowCount(sorted) + p.pageSize - 1) \div p.pageSize

\* A paginated row model whose page ends one row early.
getPaginationRowModelShortPage(sorted, p) ==
  IF Len(sorted) = 0 THEN sorted
  ELSE Slice(sorted, p.pageSize * p.pageIndex, p.pageSize * p.pageIndex + p.pageSize - 1)

\* The paginated row model, table.getRowModel(): no rows, the sorted row
\* model as it is; otherwise rows.slice(pageSize * pageIndex, pageStart + pageSize).
getPaginationRowModel(sorted, p) ==
  IF Len(sorted) = 0 THEN sorted
  ELSE LET pageStart == p.pageSize * p.pageIndex
       IN  Slice(sorted, pageStart, pageStart + p.pageSize)

getCanPreviousPage(p) == p.pageIndex > 0

\* A getCanNextPage that is off by one: true on the last page.
getCanNextPageOffByOne(sorted, p) == p.pageIndex < getPageCount(sorted, p)

\* table.getCanNextPage: false on a page count of 0 (the count is never -1).
getCanNextPage(sorted, p) ==
  IF getPageCount(sorted, p) = 0 THEN FALSE
  ELSE p.pageIndex < getPageCount(sorted, p) - 1

\* table.setPageIndex: clamped below by 0; with no pageCount option the upper
\* limit is Number.MAX_SAFE_INTEGER.
setPageIndex(p, index) == [ p EXCEPT !.pageIndex = Max(0, index) ]

\* A recomputation that resets no page index.
resetPageIndexNever(p) == p

\* table.resetPageIndex, which the table queues whenever its core, filtered
\* or sorted row model is recomputed: back to the initial page index, 0.
resetPageIndex(p) == setPageIndex(p, 0)

\* ---------------------------------------------------------------- export

\* The grid exportToCsv builds: the header of every column of the columns
\* prop, then one line per row of table.getRowModel() holding the values of
\* the row's visible cells, the cells of the table's columns in their order.
exportRows(d, cols, pageRows) ==
  << [ k \in DOMAIN Columns |-> Columns[k].header ] >>
  \o [ r \in DOMAIN pageRows |-> [ k \in DOMAIN cols |-> d[pageRows[r]][cols[k].accessorKey] ] ]

\* The characters of a header.
HeaderChars(header) ==
  CASE header = "Name"    -> << "N", "a", "m", "e" >>
    [] header = "Age"     -> << "A", "g", "e" >>
    [] header = "City"    -> << "C", "i", "t", "y" >>
    [] header = "Country" -> << "C", "o", "u", "n", "t", "r", "y" >>

\* parts.join(sep).
RECURSIVE Join(_, _)
Join(parts, sep) ==
  IF parts = << >> THEN << >>
  ELSE IF Len(parts) = 1 THEN parts[1]
  ELSE parts[1] \o sep \o Join(Tail(parts), sep)

\* csvContent of exportToCsv, over the grid with every value as the
\* characters `${value}` gives:
\* rows.map(row => row.map(value => `"${value}"`).join(',')).join('\n').
csvContent(rows) ==
  Join([ r \in DOMAIN rows |->
           Join([ k \in DOMAIN rows[r] |-> << "\"" >> \o rows[r][k] \o << "\"" >> ],
                << "," >>) ],
       << "\n" >>)

\* ------------------------------------------------------------------ state

VARIABLES
  data,              \* App: the row set given to the table
  fetchPending,      \* App: the fetch of the mount effect has not completed
  globalFilter,      \* the text of the search box
  sorting,           \* the table's sorting state: entries [id, desc]
  pagination,        \* [pageIndex, pageSize]
  visibleColumns,    \* the set of headers of the columns shown
  filteredRowModel,  \* the table's memoised filtered row model
  sortedRowModel,    \* the table's memoised sorted row model
  exported,          \* the grid of the export just made, << >> when none
  columns,           \* the columns prop of AdvancedTable
  columnWidths,      \* the stored width of each resized column, by column id
  resizing,          \* the listeners of the drag in progress, << >> when none
  darkMode,          \* the dark theme is shown
  localStorage,      \* the item of localStorage under the key "theme"
  mounted,           \* the effects of the mount have run
  session,           \* the number of page loads before this one
  response,          \* the users of the response the fetch is answered with
  selectedRows       \* part_002: the ids of the rows whose checkbox is ticked

\* The state of the table of rows, and the state around it.
tableVars == << data, fetchPending, globalFilter, sorting, pagination,
                filteredRowModel, sortedRowModel, exported >>
widthVars == << columnWidths, resizing >>
themeVars == << darkMode, localStorage, mounted, session >>

\* What no handler of AdvancedTable.tsx writes: the columns it is given, the
\* response App's fetch is answered with, the row selection of part_002.
outerVars == << columns, response, selectedRows >>

vars == << tableVars, visibleColumns, outerVars, widthVars, themeVars >>

\* The options of the rows-per-page select.
PageSizeOptions == { 5, 10, 20, 50 }

\* What the component renders from.
tableColumns == TableColumns(columns, visibleColumns)
getRowModel  == getPaginationRowModel(sortedRowModel, pagination)
pageCount    == getPageCount(sortedRowModel, pagination)
canPrevious  == getCanPreviousPage(pagination)
canNext      == getCanNextPage(sortedRowModel, pagination)

\* The disabled attributes of the pager's buttons.
\* A Next button that is never disabled.
nextDisabledNever == FALSE

previousDisabled == ~canPrevious
nextDisabled     == ~canNext
firstDisabled    == ~canPrevious
lastDisabled     == ~canNext

\* ------------------------------------------------------------------ theme

\* What the item "theme" may hold when a page load begins: nothing ("null",
\* getItem's null), what the component stored, or what another script stored.
StoredThemes == { "null", "dark", "light", "system" }

\* The initial state of darkMode: localStorage.getItem("theme") === "dark".
initialDarkMode(stored) == stored = "dark"

\* A theme effect that stores the opposite theme.
themeEffectInverted(dark) == IF dark THEN "light" ELSE "dark"

\* The effects on [darkMode]: each stores "dark" or "light" under "theme".
themeEffect(dark) == IF dark THEN "dark" ELSE "light"

\* The mount effect: setDarkMode(storedTheme === "dark").
mountEffect(storedTheme) == storedTheme = "dark"

\* --------------------------------------------------------- column widths

\* columnWidths[columnId] || 200: the width a column without a stored width has.
DefaultWidth == 200

\* The floor of handleMouseMove in AdvancedTable.tsx, and in the component
\* of part_002.
MinWidth == 50
MinWidthPart002 == 20

\* The state of columnWidths with no width stored: {}.
NoWidths == [ columnId \in {} |-> 0 ]

widthOf(widths, columnId) ==
  IF columnId \in DOMAIN widths /\ widths[columnId] # 0 THEN widths[columnId] ELSE DefaultWidth

\* setColumnWidths(prev => ({ ...prev, [columnId]: newWidth })).
setColumnWidth(prev, columnId, newWidth) ==
  [ k \in DOMAIN prev \cup { columnId } |-> IF k = columnId THEN newWidth ELSE prev[k] ]

\* A move handler without the floor.
newWidthOfNoFloor(floor, drag, clientX) == drag.startWidth + clientX - drag.startX

\* handleMouseMove: Math.max(floor, startWidth + moveEvent.clientX - startX).
newWidthOf(floor, drag, clientX) == Max(floor, drag.startWidth + clientX - drag.startX)

\* ------------------------------------------------------------ the mount

\* A pagination state that starts with twenty rows a page.
initialPaginationTwenty == [ pageIndex |-> 0, pageSize |-> 20 ]

\* useState<PaginationState>({ pageIndex: 0, pageSize: 10 }).
initialPagination == [ pageIndex |-> 0, pageSize |-> 10 ]

\* The state of the table after construction, before the fetch resolves.
InitTable ==
  /\ data = << >>
  /\ fetchPending = TRUE
  /\ globalFilter = << >>
  /\ sorting = << >>
  /\ pagination = initialPagination
  /\ filteredRowModel = << >>
  /\ sortedRowModel = << >>
  /\ exported = << >>

\* The headers of the columns prop: new Set(columns.map(col => col.header)).
headersOf(cols) == { cols[k].header : k \in DOMAIN cols }

\* App's table on a browser whose storage holds "light", its effects run.
Init ==
  /\ InitTable
  /\ columns = Columns
  /\ response = << >>
  /\ selectedRows = {}
  /\ visibleColumns = Headers
  /\ columnWidths = NoWidths
  /\ resizing = << >>
  /\ localStorage = "light"
  /\ darkMode = initialDarkMode(localStorage)
  /\ mounted = TRUE
  /\ session = 0

\* App's fetch resolves: setData(formattedData).  The table recomputes its
\* core, filtered and sorted row models and resets the page index.
FetchComplete(n) ==
  /\ UNCHANGED << outerVars, widthVars, themeVars >>
  /\ fetchPending
  /\ fetchPending' = FALSE
  /\ data' = formattedData(Payload(n))
  /\ filteredRowModel' = getFilteredRowModel(data', tableColumns, globalFilter)
  /\ sortedRowModel' = getSortedRowModel(data', filteredRowModel', sorting, tableColumns)
  /\ pagination' = resetPageIndex(pagination)
  /\ exported' = << >>
  /\ UNCHANGED << globalFilter, sorting, visibleColumns >>

\* The search input's onChange: setGlobalFilter(e.target.value).  The table
\* recomputes its filtered and sorted row models and resets the page index.
SetGlobalFilter(text) ==
  /\ UNCHANGED << outerVars, widthVars, themeVars >>
  /\ text # globalFilter
  /\ globalFilter' = text
  /\ filteredRowModel' = getFilteredRowModel(data, tableColumns, text)
  /\ sortedRowModel' = getSortedRowModel(data, filteredRowModel', sorting, tableColumns)
  /\ pagination' = resetPageIndex(pagination)
  /\ exported' = << >>
  /\ UNCHANGED << data, fetchPending, sorting, visibleColumns >>

\* A click on the header of a shown column, with the shift key (multi) or
\* without: column.getToggleSortingHandler().  The table recomputes its
\* sorted row model and resets the page index.
ToggleSortingHandler(columnId, multi) ==
  /\ UNCHANGED << outerVars, widthVars, themeVars >>
  /\ columnId \in ColumnIds(tableColumns)
  /\ sorting' = toggleSorting(filteredRowModel, sorting, columnId, multi)
  /\ sortedRowModel' = getSortedRowModel(data, filteredRowModel, sorting', tableColumns)
  /\ pagination' = resetPageIndex(pagination)
  /\ exported' = << >>
  /\ UNCHANGED << data, fetchPending, globalFilter, visibleColumns, filteredRowModel >>

\* The Previous button, disabled unless getCanPreviousPage(): table.previousPage().
PreviousPage ==
  /\ UNCHANGED << outerVars, widthVars, themeVars >>
  /\ ~previousDisabled
  /\ pagination' = setPageIndex(pagination, pagination.pageIndex - 1)
  /\ exported' = << >>
  /\ UNCHANGED << data, fetchPending, globalFilter, sorting, visibleColumns,
                  filteredRowModel, sortedRowModel >>

\* The Next button, disabled unless getCanNextPage(): table.nextPage().
NextPage ==
  /\ UNCHANGED << outerVars, widthVars, themeVars >>
  /\ ~nextDisabled
  /\ pagination' = setPageIndex(pagination, pagination.pageIndex + 1)
  /\ exported' = << >>
  /\ UNCHANGED << data, fetchPending, globalFilter, sorting, visibleColumns,
                  filteredRowModel, sortedRowModel >>

\* The First button of the four-button pager: table.setPageIndex(0).
FirstPage ==
  /\ UNCHANGED << outerVars, widthVars, themeVars >>
  /\ ~firstDisabled
  /\ pagination' = setPageIndex(pagination, 0)
  /\ exported' = << >>
  /\ UNCHANGED << data, fetchPending, globalFilter, sorting, visibleColumns,
                  filteredRowModel, sortedRowModel >>

\* The Last button of the four-button pager: table.setPageIndex(getPageCount() - 1).
LastPage ==
  /\ UNCHANGED << outerVars, widthVars, themeVars >>
  /\ ~lastDisabled
  /\ pagination' = setPageIndex(pagination, pageCount - 1)
  /\ exported' = << >>
  /\ UNCHANGED << data, fetchPending, globalFilter, sorting, visibleColumns,
                  filteredRowModel, sortedRowModel >>

\* The component's setPageSize, the onChange of the rows-per-page select:
\* setPagination(prev => ({ ...prev, pageSize: size })).
setPageSize(p, size) == [ p EXCEPT !.pageSize = size ]

SetPageSize(size) ==
  /\ UNCHANGED << outerVars, widthVars, themeVars >>
  /\ size # pagination.pageSize
  /\ pagination' = setPageSize(pagination, size)
  /\ exported' = << >>
  /\ UNCHANGED << data, fetchPending, globalFilter, sorting, visibleColumns,
                  filteredRowModel, sortedRowModel >>

\* A toggle that could only hide.
toggleColumnVisibilityRemoveOnly(prev, header) == prev \ { header }

\* toggleColumnVisibility: the header leaves the set when in it, joins it
\* otherwise.  No dependency of a memoised row model changes.
toggleColumnVisibility(prev, header) ==
  IF header \in prev THEN prev \ { header } ELSE prev \cup { header }

ToggleColumnVisibility(header) ==
  /\ UNCHANGED << outerVars, widthVars, themeVars >>
  /\ visibleColumns' = toggleColumnVisibility(visibleColumns, header)
  /\ exported' = << >>
  /\ UNCHANGED << data, fetchPending, globalFilter, sorting, pagination,
                  filteredRowModel, sortedRowModel >>

\* The Export button: exportToCsv.
ExportToCsv ==
  /\ UNCHANGED << outerVars, widthVars, themeVars >>
  /\ exported' = exportRows(data, tableColumns, getRowModel)
  /\ UNCHANGED << data, fetchPending, globalFilter, sorting, pagination, visibleColumns,
                  filteredRowModel, sortedRowModel >>

Next ==
  \/ \E n \in PayloadSizes : FetchComplete(n)
  \/ \E text \in FilterTexts : SetGlobalFilter(text)
  \/ \E k \in DOMAIN Columns : ToggleSortingHandler(Columns[k].accessorKey, FALSE)
  \/ PreviousPage
  \/ NextPage
  \/ FirstPage
  \/ LastPage
  \/ \E size \in PageSizeOptions : SetPageSize(size)
  \/ \E header \in Headers : ToggleColumnVisibility(header)
  \/ ExportToCsv

\* The component under plain header clicks.
Spec == Init /\ [][Next]_vars

\* The pager: the rows-per-page select is set while the first page is shown,
\* and from then on the rows are loaded, searched and sorted and the four
\* buttons are clicked.
InitPager ==
  /\ data = << >>
  /\ fetchPending = TRUE
  /\ globalFilter = << >>
  /\ sorting = << >>
  /\ \E size \in PageSizeOptions : pagination = setPageSize(initialPagination, size)
  /\ filteredRowModel = << >>
  /\ sortedRowModel = << >>
  /\ exported = << >>
  /\ columns = Columns
  /\ response = << >>
  /\ selectedRows = {}
  /\ visibleColumns = Headers
  /\ columnWidths = NoWidths
  /\ resizing = << >>
  /\ localStorage = "light"
  /\ darkMode = initialDarkMode(localStorage)
  /\ mounted = TRUE
  /\ session = 0

NextPager ==
  \/ \E n \in PayloadSizes : FetchComplete(n)
  \/ \E text \in FilterTexts : SetGlobalFilter(text)
  \/ \E k \in DOMAIN Columns : ToggleSortingHandler(Columns[k].accessorKey, FALSE)
  \/ PreviousPage
  \/ NextPage
  \/ FirstPage
  \/ LastPage

SpecPager == InitPager /\ [][NextPager]_vars

\* ------------------------------------------- the fetch, whatever it is answered

\* The users a response may hold: the users the source serves, users that
\* lack a property, and a user without an address among users that have one.
IngestPayloads ==
  { Payload(3),
    Payload(MaxUsers),
    << User(1), Without(User(2), "lastName"), User(3) >>,
    << User(1), Without(User(2), "age"), User(3) >>,
    << User(1), [ User(2) EXCEPT !.address = Without(User(2).address, "city") ], User(3) >>,
    << User(1), Without(User(2), "address"), User(3) >> }

\* App's fetch is answered with response: the callback of then runs.  When
\* it reaches setData the table recomputes its row models and resets the
\* page index; when the conversion throws, nothing is set.
FetchResolves ==
  /\ UNCHANGED << outerVars, widthVars, themeVars >>
  /\ fetchPending
  /\ fetchPending' = FALSE
  /\ data' = thenCallback(data, response)
  /\ IF data' = data
     THEN UNCHANGED << filteredRowModel, sortedRowModel, pagination >>
     ELSE /\ filteredRowModel' = getFilteredRowModel(data', tableColumns, globalFilter)
          /\ sortedRowModel' = getSortedRowModel(data', filteredRowModel', sorting, tableColumns)
          /\ pagination' = resetPageIndex(pagination)
  /\ exported' = << >>
  /\ UNCHANGED << globalFilter, sorting, visibleColumns >>

InitIngest ==
  /\ InitTable
  /\ exported = << >>
  /\ columns = Columns
  /\ response \in IngestPayloads
  /\ selectedRows = {}
  /\ visibleColumns = Headers
  /\ columnWidths = NoWidths
  /\ resizing = << >>
  /\ localStorage = "light"
  /\ darkMode = initialDarkMode(localStorage)
  /\ mounted = TRUE
  /\ session = 0

NextIngest ==
  \/ FetchResolves
  \/ PreviousPage
  \/ NextPage
  \/ \E size \in PageSizeOptions : SetPageSize(size)
  \/ \E header \in Headers : ToggleColumnVisibility(header)

\* App's fetch and the view around it, before and after the answer.
SpecIngest == InitIngest /\ [][NextIngest]_vars

\* ------------------------------------------------------------- the export

\* A user known by a nickname, written in double quotes in the first name.
UserWithNickname ==
  [ User(2) EXCEPT !.firstName = << "A", "l", " ", "\"", "A", "c", "e", "\"" >> ]

ExportPayloads ==
  { Payload(3), << User(1), UserWithNickname, User(3) >> }

InitExport ==
  /\ InitTable
  /\ exported = << >>
  /\ columns = Columns
  /\ response \in ExportPayloads
  /\ selectedRows = {}
  /\ visibleColumns = Headers
  /\ columnWidths = NoWidths
  /\ resizing = << >>
  /\ localStorage = "light"
  /\ darkMode = initialDarkMode(localStorage)
  /\ mounted = TRUE
  /\ session = 0

NextExport ==
  \/ FetchResolves
  \/ \E size \in PageSizeOptions : SetPageSize(size)
  \/ \E header \in Headers : ToggleColumnVisibility(header)
  \/ ExportToCsv

\* The Export button over the rows of a response.
SpecExport == InitExport /\ [][NextExport]_vars

\* ------------------------------------------- part_002: the row selection

\* The ids of the rows on the page shown: row.id of table.getRowModel().rows,
\* the position of the row in data.
displayedRowIds == { getRowModel[r] : r \in DOMAIN getRowModel }

\* checked of the checkbox in the header:
\* selectedRows.size === table.getRowModel().rows.length.
selectAllChecked == Cardinality(selectedRows) = Len(getRowModel)

\* "N of M rows selected".
selectedCounter == << Cardinality(selectedRows), Len(getRowModel) >>

\* handleSelectAll: the ids of the rows shown when checked, nothing otherwise.
handleSelectAll(checked) == IF checked THEN displayedRowIds ELSE {}

\* handleRowSelect: a copy of selectedRows with the id added or deleted.
handleRowSelect(prev, rowId, checked) ==
  IF checked THEN prev \cup { rowId } ELSE prev \ { rowId }

\* A click on the checkbox of the header: the event carries the opposite of
\* what the checkbox shows.
HandleSelectAll ==
  /\ selectedRows' = handleSelectAll(~selectAllChecked)
  /\ UNCHANGED << tableVars, visibleColumns, columns, response, widthVars, themeVars >>

\* A click on the checkbox of a row shown.
HandleRowSelect(rowId) ==
  /\ rowId \in displayedRowIds
  /\ selectedRows' = handleRowSelect(selectedRows, rowId, rowId \notin selectedRows)
  /\ UNCHANGED << tableVars, visibleColumns, columns, response, widthVars, themeVars >>

NextSelect ==
  \/ \E n \in PayloadSizes : FetchComplete(n)
  \/ \E text \in FilterTexts : SetGlobalFilter(text)
  \/ PreviousPage
  \/ NextPage
  \/ HandleSelectAll
  \/ \E rowId \in 1..MaxUsers : HandleRowSelect(rowId)

\* The component of part_002 under selections, searches and page changes.
SpecSelect == Init /\ [][NextSelect]_vars

\* The sorting state under plain and shift-key header clicks, every column shown.
NextSort ==
  \/ \E n \in PayloadSizes : FetchComplete(n)
  \/ \E text \in FilterTexts : SetGlobalFilter(text)
  \/ \E k \in DOMAIN Columns, multi \in BOOLEAN : ToggleSortingHandler(Columns[k].accessorKey, multi)

SpecSort == Init /\ [][NextSort]_vars

\* ----------------------------------------------- the view and the theme

\* The page loads a browser session may hold after the first.
MaxSessions == 2

\* A columns prop in which two columns carry one label.
ColumnsSharedLabel ==
  << [ accessorKey |-> "name",    header |-> "Name" ],
     [ accessorKey |-> "age",     header |-> "Age" ],
     [ accessorKey |-> "city",    header |-> "Place" ],
     [ accessorKey |-> "country", header |-> "Place" ] >>

\* A columns prop in which two columns read the same accessorKey, so the
\* table derives the same id for both.
ColumnsSharedId ==
  << [ accessorKey |-> "name", header |-> "Name" ],
     [ accessorKey |-> "age",  header |-> "Age" ],
     [ accessorKey |-> "city", header |-> "City" ],
     [ accessorKey |-> "city", header |-> "Town" ] >>

ColumnsProps == { Columns, ColumnsSharedLabel, ColumnsSharedId }

\* AdvancedTable after its first render, whatever columns it is given and
\* whatever the storage holds: the initial state of every useState.
InitView ==
  /\ InitTable
  /\ columns \in ColumnsProps
  /\ response = << >>
  /\ selectedRows = {}
  /\ visibleColumns = headersOf(columns)
  /\ columnWidths = NoWidths
  /\ resizing = << >>
  /\ localStorage \in StoredThemes
  /\ darkMode = initialDarkMode(localStorage)
  /\ mounted = FALSE
  /\ session = 0

\* The effects of the mount, in their order: the first effect on [darkMode]
\* stores the theme, the mount effect reads it back into darkMode, and the
\* effects on [darkMode] leave the theme of that darkMode stored.
MountEffects ==
  /\ ~mounted
  /\ mounted' = TRUE
  /\ LET storedTheme == themeEffect(darkMode)
     IN  /\ darkMode' = mountEffect(storedTheme)
         /\ localStorage' = themeEffect(darkMode')
  /\ UNCHANGED << tableVars, visibleColumns, outerVars, widthVars, session >>

\* The theme button: setDarkMode(!darkMode), then the effects on [darkMode].
ToggleDarkMode ==
  /\ mounted
  /\ darkMode' = ~darkMode
  /\ localStorage' = themeEffect(darkMode')
  /\ UNCHANGED << tableVars, visibleColumns, outerVars, widthVars, mounted, session >>

\* The page is loaded again: every useState starts over, the storage stays.
Reload ==
  /\ mounted
  /\ session < MaxSessions
  /\ session' = session + 1
  /\ mounted' = FALSE
  /\ darkMode' = initialDarkMode(localStorage)
  /\ visibleColumns' = headersOf(columns)
  /\ columnWidths' = NoWidths
  /\ resizing' = << >>
  /\ data' = << >>
  /\ fetchPending' = TRUE
  /\ globalFilter' = << >>
  /\ sorting' = << >>
  /\ pagination' = initialPagination
  /\ filteredRowModel' = << >>
  /\ sortedRowModel' = << >>
  /\ exported' = << >>
  /\ selectedRows' = {}
  /\ UNCHANGED << columns, response, localStorage >>

NextView ==
  \/ MountEffects
  \/ ToggleDarkMode
  \/ Reload
  \/ \E header \in headersOf(columns) : ToggleColumnVisibility(header)

\* The View menu and the theme over page loads.
SpecView == InitView /\ [][NextView]_vars

\* The view state over page loads: rows are loaded, searched, sorted and
\* paged and columns hidden between one load of the page and the next.
InitSession ==
  /\ InitView
  /\ columns = Columns
  /\ localStorage = "null"

NextSession ==
  \/ MountEffects
  \/ Reload
  \/ FetchComplete(3)
  \/ \E text \in FilterTexts : SetGlobalFilter(text)
  \/ \E k \in DOMAIN Columns : ToggleSortingHandler(Columns[k].accessorKey, FALSE)
  \/ \E size \in PageSizeOptions : SetPageSize(size)
  \/ \E header \in Headers : ToggleColumnVisibility(header)

SpecSession == InitSession /\ [][NextSession]_vars

\* -------------------------------------------------------- column resize

\* The widest column a drag is followed to.
MaxWidth == 400

\* The clientX of the mouse events of a drag.
ClientXs == { 0, 200, 400 }

\* onMouseDown on the handle of a header: handleColumnResize(header.id, e)
\* keeps startX and startWidth and adds the two listeners.
HandleColumnResize(columnId, clientX) ==
  /\ resizing = << >>
  /\ columnId \in ColumnIds(tableColumns)
  /\ resizing' = << [ columnId   |-> columnId,
                      startX     |-> clientX,
                      startWidth |-> widthOf(columnWidths, columnId) ] >>
  /\ UNCHANGED << tableVars, visibleColumns, outerVars, columnWidths, themeVars >>

\* handleMouseMove of AdvancedTable.tsx: Math.max(50, ...).
HandleMouseMove(clientX) ==
  /\ resizing # << >>
  /\ LET newWidth == newWidthOf(MinWidth, resizing[1], clientX)
     IN  /\ newWidth <= MaxWidth
         /\ columnWidths' = setColumnWidth(columnWidths, resizing[1].columnId, newWidth)
  /\ UNCHANGED << tableVars, visibleColumns, outerVars, resizing, themeVars >>

\* handleMouseMove of the component of part_002: Math.max(20, ...).
HandleMouseMovePart002(clientX) ==
  /\ resizing # << >>
  /\ LET newWidth == newWidthOf(MinWidthPart002, resizing[1], clientX)
     IN  /\ newWidth <= MaxWidth
         /\ columnWidths' = setColumnWidth(columnWidths, resizing[1].columnId, newWidth)
  /\ UNCHANGED << tableVars, visibleColumns, outerVars, resizing, themeVars >>

\* handleMouseUp: the two listeners are removed.
HandleMouseUp ==
  /\ resizing # << >>
  /\ resizing' = << >>
  /\ UNCHANGED << tableVars, visibleColumns, outerVars, columnWidths, themeVars >>

NextResize ==
  \/ \E k \in DOMAIN Columns, clientX \in ClientXs : HandleColumnResize(Columns[k].accessorKey, clientX)
  \/ \E clientX \in ClientXs : HandleMouseMove(clientX)
  \/ HandleMouseUp

\* The resize drags of AdvancedTable.tsx.
SpecResize == Init /\ [][NextResize]_vars

NextResizePart002 ==
  \/ \E k \in DOMAIN Columns, clientX \in ClientXs : HandleColumnResize(Columns[k].accessorKey, clientX)
  \/ \E clientX \in ClientXs : HandleMouseMovePart002(clientX)
  \/ HandleMouseUp

\* The resize drags of the component of part_002.
SpecResizePart002 == Init /\ [][NextResizePart002]_vars

\* ----------------------------------------------------------------- claims

\* A text is blank when it is empty or holds only spaces.
IsBlank(text) == \A i \in DOMAIN text : text[i] = " "

\* The string form of the value of column columnId in row i holds text,
\* whatever the case of either.
ValueContains(i, columnId, text) ==
  includes(toLowerCase(ValueToString(data[i][columnId], columnId)), toLowerCase(text))

\* C1 as amended: with an empty filter text the filter stage returns the row
\* set as it is, every row, in its order.
C1_EmptyFilterIsIdentity ==
  globalFilter = << >> => filteredRowModel = getCoreRowModel(data)

\* C1 as stated: with an empty or whitespace-only filter text the filter
\* stage returns the row set as it is.
C1_BlankFilterIsIdentity ==
  IsBlank(globalFilter) => filteredRowModel = getCoreRowModel(data)

\* The filter stage has run on a loaded row set with the empty text.
C1_Witness ==
  /\ ~fetchPending
  /\ Len(data) = MaxUsers
  /\ globalFilter = << >>
  /\ visibleColumns # Headers
  /\ Len(filteredRowModel) = MaxUsers

\* C2: with a non-blank filter text the rows kept are exactly the rows in
\* which a shown column's value holds the text, case ignored, in the order
\* of the row set.
C2_FilterKeepsExactlyMatchingRows ==
  ~IsBlank(globalFilter) =>
    filteredRowModel =
      SelectSeq(getCoreRowModel(data),
                LAMBDA i : \E k \in DOMAIN tableColumns :
                             ValueContains(i, tableColumns[k].accessorKey, globalFilter))

\* The cells of row i under the shown columns, in their order.
VisibleCells(i) == [ k \in DOMAIN tableColumns |-> data[i][tableColumns[k].accessorKey] ]

\* C3: an export holds one data line per row that passes the filter, in the
\* sort order, whatever the page size and the page index.
C3_ExportCoversAllFilteredRows ==
  exported # << >> =>
    /\ Len(exported) - 1 = Len(filteredRowModel)
    /\ Tail(exported) = [ r \in DOMAIN sortedRowModel |-> VisibleCells(sortedRowModel[r]) ]

\* C4: the header line of an export holds the labels of the shown columns in
\* their order, every data line is as long as the header line, and cell k of
\* a line is the value of the column whose label is at place k of the header.
C4_ExportGridMatchesVisibleColumns ==
  exported # << >> =>
    /\ exported[1] = [ k \in DOMAIN tableColumns |-> tableColumns[k].header ]
    /\ \A r \in 2..Len(exported) :
         /\ Len(exported[r]) = Len(exported[1])
         /\ \A k \in DOMAIN exported[r] :
              \E c \in DOMAIN Columns :
                /\ Columns[c].header = exported[1][k]
                /\ exported[r][k] = data[getRowModel[r - 1]][Columns[c].accessorKey]

\* The least q with q * b >= a: the ceiling of a / b.
CeilDiv(a, b) == CHOOSE q \in 0..a : q * b >= a /\ (q = 0 \/ (q - 1) * b < a)

\* The page indicator: "Page {pageIndex + 1} of {getPageCount()}".
pageIndicator == << pagination.pageIndex + 1, pageCount >>

\* C5: the page count is the ceiling of the row count over the page size and
\* at least 1, so that an empty result shows "Page 1 of 1".
C5_PageCountAtLeastOne ==
  /\ pageCount = CeilDiv(getRowCount(sortedRowModel), pagination.pageSize)
  /\ pageCount >= 1
  /\ getRowCount(sortedRowModel) = 0 => pageIndicator = << 1, 1 >>

\* The page the table shows at page index i of the current sorted rows.
PageAt(i) == getPaginationRowModel(sortedRowModel, [ pagination EXCEPT !.pageIndex = i ])

RECURSIVE ConcatPages(_)
ConcatPages(n) == IF n = 0 THEN << >> ELSE ConcatPages(n - 1) \o PageAt(n - 1)

RECURSIVE SumPageLengths(_)
SumPageLengths(n) == IF n = 0 THEN 0 ELSE SumPageLengths(n - 1) + Len(PageAt(n - 1))

Range(s) == { s[i] : i \in DOMAIN s }

\* The pages 0..pageCount-1 in order are the sorted rows, their lengths sum
\* to the number of filtered rows, and every filtered row is on one page.
PagesPartitionSortedRows ==
  /\ ConcatPages(pageCount) = sortedRowModel
  /\ SumPageLengths(pageCount) = Len(filteredRowModel)
  /\ Range(sortedRowModel) = Range(filteredRowModel)
  /\ Cardinality(Range(sortedRowModel)) = Len(sortedRowModel)

ClampedIndex == Min(pagination.pageIndex, Max(0, pageCount - 1))

\* C7: the page shown for a page index at or past the page count is the last
\* valid page, and the page index held is the index of the page shown.
C7_OutOfRangePageIsClamped ==
  /\ getRowModel = PageAt(ClampedIndex)
  /\ pagination.pageIndex = ClampedIndex
  /\ getRowCount(sortedRowModel) > 0 => getRowModel # << >>

PageIndexInRange ==
  pagination.pageIndex \in 0..Max(0, pageCount - 1)

\* C8: every change of the filter text and every replacement of the row set
\* leaves the page index within 0..max(0, pageCount - 1).
C8_PageIndexInRangeAfterFilterOrData ==
  [][ (globalFilter' # globalFilter \/ data' # data) => PageIndexInRange' ]_vars

\* A text typed on a later page has narrowed the rows to fewer pages than the
\* page index left behind would need.
C8_Witness ==
  /\ globalFilter # << >>
  /\ Len(filteredRowModel) < Len(data)
  /\ pagination.pageSize = 5
  /\ pageCount = 2
  /\ pagination.pageIndex = 0

\* The place, in the sorted rows, of the first row of the page shown.
AnchorPosition == pagination.pageSize * pagination.pageIndex

\* C9: a change of the page size sets the page index to
\* floor(anchorPosition / newPageSize), the page that holds the first row of
\* the page shown before, and to 0 when there is no such row.
C9_PageSizeKeepsAnchorRow ==
  [][ pagination'.pageSize # pagination.pageSize =>
        IF AnchorPosition < Len(sortedRowModel)
        THEN /\ pagination'.pageIndex = AnchorPosition \div pagination'.pageSize
             /\ sortedRowModel[AnchorPosition + 1] \in Range(getRowModel')
        ELSE pagination'.pageIndex = 0
    ]_vars

\* C10: canPrevious is pageIndex > 0, canNext is pageIndex < pageCount - 1,
\* and each button is disabled exactly when its flag is false.
C10_CanPreviousCanNext ==
  /\ canPrevious <=> pagination.pageIndex > 0
  /\ canNext <=> pagination.pageIndex < pageCount - 1
  /\ previousDisabled <=> ~(pagination.pageIndex > 0)
  /\ firstDisabled <=> ~(pagination.pageIndex > 0)
  /\ nextDisabled <=> ~(pagination.pageIndex < pageCount - 1)
  /\ lastDisabled <=> ~(pagination.pageIndex < pageCount - 1)

\* On a middle page both flags are true.
C10_Witness ==
  /\ pageCount = 3
  /\ pagination.pageIndex = 1
  /\ canPrevious
  /\ canNext


\* The position of a row in a row model.
PositionIn(rows, row) == CHOOSE p \in DOMAIN rows : rows[p] = row

\* The active sort entries give two rows the same sort key.
SameSortKey(a, b) ==
  \A k \in DOMAIN sorting : data[a][sorting[k].id] = data[b][sorting[k].id]

\* The sort on one column, ascending or descending.
SortOn(columnId, desc) == << [ id |-> columnId, desc |-> desc ] >>

\* C11: sorting is stable in both directions.  Two rows with the same sort
\* key stand in the sorted rows in the order they have in the filtered rows,
\* whether the sort is ascending or descending; the three users Bob 30,
\* Al 25, Cy 25 sorted by age give Al, Cy, Bob ascending and Bob, Al, Cy
\* descending.
C11_SortIsStable ==
  /\ \A p, q \in DOMAIN sortedRowModel :
       (p < q /\ SameSortKey(sortedRowModel[p], sortedRowModel[q])) =>
         PositionIn(filteredRowModel, sortedRowModel[p])
           < PositionIn(filteredRowModel, sortedRowModel[q])
  /\ (Len(data) = 3 /\ globalFilter = << >>) =>
       /\ sorting = SortOn("age", FALSE) => sortedRowModel = << 2, 3, 1 >>
       /\ sorting = SortOn("age", TRUE)  => sortedRowModel = << 1, 2, 3 >>

\* Eleven users sorted by age descending: rows tie and rows move.
C11_Witness ==
  /\ Len(data) = MaxUsers
  /\ sorting = SortOn("age", TRUE)
  /\ sortedRowModel # filteredRowModel
  /\ \E p, q \in DOMAIN sortedRowModel :
       p < q /\ SameSortKey(sortedRowModel[p], sortedRowModel[q])


\* a <= b in the order of a column's values: numeric for a number,
\* lexicographic by code units for a string.
ValueLeq(a, b, columnId) ==
  IF columnId \in NumberFields THEN a <= b ELSE (a = b \/ StrGreater(b, a))

\* C12: with an active sort on a column of the table, the sorted rows are a
\* permutation of the filtered rows in which every row and its successor are
\* in non-decreasing order of the column's value when the sort is ascending
\* and in non-increasing order when it is descending.
C12_SortedRowsAreOrdered ==
  (Len(sorting) = 1 /\ sorting[1].id \in ColumnIds(tableColumns)) =>
    LET k == sorting[1].id
    IN  /\ Len(sortedRowModel) = Len(filteredRowModel)
        /\ Range(sortedRowModel) = Range(filteredRowModel)
        /\ \A p \in 1..(Len(sortedRowModel) - 1) :
             LET a == data[sortedRowModel[p]][k]
                 b == data[sortedRowModel[p + 1]][k]
             IN  IF sorting[1].desc THEN ValueLeq(b, a, k) ELSE ValueLeq(a, b, k)


\* C13: sorting is idempotent.  The sort stage applied to its own output,
\* under the same sort, returns that output.
C13_SortIsIdempotent ==
  getSortedRowModel(data, sortedRowModel, sorting, tableColumns) = sortedRowModel

\* Eleven users sorted by name ascending, in another order than before.
C13_Witness ==
  /\ sorting = SortOn("name", FALSE)
  /\ Len(sortedRowModel) = MaxUsers
  /\ sortedRowModel # filteredRowModel


\* C14: with no sort active the sort stage returns the filtered rows in
\* their order, in every state and in particular after the header click that
\* takes the last sort entry away.
C14_NoSortKeepsOrder ==
  /\ [](sorting = << >> => sortedRowModel = filteredRowModel)
  /\ [][ (sorting # << >> /\ sorting' = << >>) => sortedRowModel' = filteredRowModel' ]_vars

\* No sort is active on a filtered row set of several rows.
C14_Witness ==
  /\ sorting = << >>
  /\ globalFilter # << >>
  /\ Len(filteredRowModel) > 1
  /\ Len(filteredRowModel) < Len(data)


\* C15: at most one sort key is active.  After any sequence of header
\* clicks the sorting state holds no entry or one, and a click on the header
\* of another column leaves that column's entry alone in the state.
C15_AtMostOneSortKey ==
  /\ [](Len(sorting) <= 1)
  /\ [][ (sorting' # sorting /\ sorting' # << >>) => Len(sorting') = 1 ]_vars


\* The sorting state names a column the table does not hold.
SortNamesUnknownColumn ==
  \E k \in DOMAIN sorting : sorting[k].id \notin ColumnIds(tableColumns)

\* C16: a sort request that names a column the table does not hold (or one
\* it cannot sort) fails.  Whenever the sort stage is run on a new row set or
\* filter text under such a sort, no sorted view is produced: the sorted
\* rows and the sorting state stay as they were.
C16_UnknownSortColumnFails ==
  [][ ((data' # data \/ globalFilter' # globalFilter) /\ SortNamesUnknownColumn') =>
        (sortedRowModel' = sortedRowModel /\ sorting' = sorting) ]_vars


\* C17: the active sort, when present, references a column that the table
\* holds (every column the table holds has an accessor and is sortable), in
\* every state and in particular after the sorted column is hidden.
C17_SortReferencesTableColumn ==
  \A k \in DOMAIN sorting : sorting[k].id \in ColumnIds(tableColumns)


\* Column k of the columns prop is shown.
IsVisible(k) == columns[k].header \in visibleColumns

\* C18: the visible columns are columns of the columns prop, and a click in
\* the View menu changes the visibility of one column only, also when
\* another column carries the same label.
C18_ToggleChangesOneColumn ==
  /\ [](visibleColumns \subseteq headersOf(columns))
  /\ [][ (visibleColumns' # visibleColumns /\ session' = session) =>
           Cardinality({ k \in DOMAIN columns : IsVisible(k)' # IsVisible(k) }) = 1 ]_vars


\* C19: after any sequence of resize drags every stored column width is at
\* least the floor of 50 pixels.
C19_StoredWidthsAtLeastFloor ==
  \A columnId \in DOMAIN columnWidths : columnWidths[columnId] >= 50


\* The theme the page shows, as the string the storage holds for it.
ShownTheme == IF darkMode THEN "dark" ELSE "light"

\* C20: the theme persists under the key "theme".  Once the effects of the
\* mount have run, and after every toggle, the stored value is "dark" or
\* "light" and is the theme shown; a page load starts, and its effects leave
\* it, in the theme shown last; with nothing stored the page starts light.
C20_ThemePersists ==
  /\ [](mounted => localStorage = ShownTheme)
  /\ [](localStorage = "null" => ~darkMode)
  /\ [][ session' = session + 1 => darkMode' = darkMode ]_vars
  /\ [][ (session > 0 /\ ~mounted /\ mounted') => darkMode' = darkMode ]_vars

\* A later page load shows the dark theme, its effects run.
C20_Witness ==
  /\ session = MaxSessions
  /\ mounted
  /\ darkMode
  /\ localStorage = "dark"


\* ------------------------------------------------------------- C25

\* C25: no table is built over two columns of one id: the ids of the columns
\* the table is given are pairwise distinct.
C25_ColumnIdsAreDistinct ==
  Cardinality(ColumnIds(tableColumns)) = Len(tableColumns)

\* ------------------------------------------------------------- C30

\* s is t with some elements left out, the others in t's order.
RECURSIVE IsSubsequence(_, _)
IsSubsequence(s, t) ==
  IF s = << >> THEN TRUE
  ELSE IF t = << >> THEN FALSE
  ELSE IF Head(s) = Head(t) THEN IsSubsequence(Tail(s), Tail(t))
  ELSE IsSubsequence(s, Tail(t))

\* C30: toggling one column's visibility twice gives back the visible set
\* there was, and the displayed columns are always the visible ones in the
\* order of the column definitions.
C30_ToggleTwiceRestores ==
  /\ \A header \in headersOf(columns) :
       toggleColumnVisibility(toggleColumnVisibility(visibleColumns, header), header)
         = visibleColumns
  /\ IsSubsequence(tableColumns, columns)
  /\ \A k \in DOMAIN columns :
       columns[k].header \in visibleColumns
         => \E j \in DOMAIN tableColumns : tableColumns[j] = columns[k]

\* A column in the middle is hidden and columns on both sides are shown.
C30_Witness ==
  /\ columns = Columns
  /\ visibleColumns = { "Name", "City", "Country" }
  /\ Len(tableColumns) = 3


\* ------------------------------------------------------------- C29

\* C29: a drag starts with the width its column has and keeps the column, the
\* position and the width it started with;
\* a step that changes a width happens during a drag, sets the dragged
\* column's width to max(50, w + x - x0) for the position x of the move and
\* leaves every other width as it was; with no drag in progress no width
\* changes.
C29_DragSetsWidth ==
  [][ /\ (resizing = << >> /\ resizing' # << >>)
           => /\ resizing'[1].columnId \in ColumnIds(tableColumns)
              /\ resizing'[1].startX \in ClientXs
              /\ resizing'[1].startWidth = widthOf(columnWidths, resizing'[1].columnId)
      /\ (resizing # << >> /\ resizing' # << >>) => resizing' = resizing
      /\ columnWidths' # columnWidths
           => /\ resizing # << >>
              /\ resizing' = resizing
              /\ \E x \in ClientXs :
                   columnWidths' =
                     setColumnWidth(columnWidths, resizing[1].columnId,
                       Max(MinWidth, resizing[1].startWidth + x - resizing[1].startX))
              /\ \A k \in ColumnIds(Columns) \ { resizing[1].columnId } :
                   widthOf(columnWidths', k) = widthOf(columnWidths, k)
    ]_vars

\* A drag on age has reached the floor after a drag on name ended at 400.
C29_Witness ==
  /\ resizing # << >>
  /\ resizing[1].columnId = "age"
  /\ widthOf(columnWidths, "age") = MinWidth
  /\ widthOf(columnWidths, "name") = MaxWidth


\* ------------------------------------------------------------- C27

\* C27: under clicks on Previous, Next, First and Last the page index is a
\* valid page, 0..pageCount-1, whenever there are rows to page through, and
\* is 0 when there are none; no step takes it below 0, and a step that
\* raises it does not take it past the last page.
C27_PagerKeepsPageIndexInRange ==
  /\ [] ( /\ getRowCount(sortedRowModel) > 0 => pagination.pageIndex \in 0..(pageCount - 1)
          /\ data # << >> => pagination.pageIndex \in 0..Max(0, pageCount - 1) )
  /\ [][ /\ pagination'.pageIndex >= 0
          /\ pagination'.pageIndex > pagination.pageIndex
               => pagination'.pageIndex <= pageCount - 1 ]_vars

\* Next has been clicked up to the last of three pages.
C27_Witness ==
  /\ pageCount = 3
  /\ pagination.pageIndex = pageCount - 1
  /\ nextDisabled
  /\ ~previousDisabled


\* ------------------------------------------------------------- C26

\* The view state a mount of the component starts with.
InitialView ==
  /\ pagination.pageIndex = 0
  /\ pagination.pageSize = 10
  /\ sorting = << >>
  /\ globalFilter = << >>
  /\ visibleColumns = headersOf(columns)
  /\ \A k \in DOMAIN columns : columns[k].header \in visibleColumns

\* C26: the component starts, at the first load of the page and at every
\* later one, with pageIndex 0, pageSize 10, no sort, an empty filter text
\* and every column visible.
C26_InitialViewState ==
  /\ InitialView
  /\ [][ session' # session => InitialView' ]_vars

\* The page has been loaded again and the component has not mounted yet.
C26_Witness ==
  /\ session = 1
  /\ ~mounted
  /\ fetchPending
  /\ InitialView


\* ------------------------------------------------------------- C22

\* The row set is the complete conversion of the response.
CompleteRowSet(rows) ==
  /\ Len(rows) = Len(response)
  /\ \A i \in DOMAIN rows : rows[i] = FormatUser(response[i])

\* C22: the row set the table is given is empty while the fetch is pending,
\* and is empty or the complete conversion of the response afterwards; the
\* only step that changes it replaces the empty row set by the complete one.
C22_RowSetEmptyOrComplete ==
  /\ [] ( /\ fetchPending => data = << >>
          /\ data = << >> \/ CompleteRowSet(data) )
  /\ [][ data' # data
           => /\ fetchPending /\ ~fetchPending'
              /\ data = << >>
              /\ CompleteRowSet(data') ]_vars

\* The fetch has been answered with eleven users and the table has them all.
C22_Witness ==
  /\ ~fetchPending
  /\ Len(response) = MaxUsers
  /\ Len(data) = MaxUsers
  /\ pageCount > 1

\* ------------------------------------------------------------- C23

\* The properties the conversion reads.
HasRequiredFields(user) ==
  /\ { "firstName", "lastName", "age", "address" } \subseteq DOMAIN user
  /\ { "city", "country" } \subseteq DOMAIN user.address

\* C23: no row converted from a record that lacks a required field is in
\* the row set, and every row has its four fields.
C23_NoRowMissesRequiredField ==
  data # << >> =>
    /\ \A i \in DOMAIN response : HasRequiredFields(response[i])
    /\ \A i \in DOMAIN data : DOMAIN data[i] = { "name", "age", "city", "country" }

\* ------------------------------------------------------------- C24

\* C24: the step in which the conversion of the response throws leaves the
\* row set, the view state and the row models of the table as they were.
C24_FailedIngestionKeepsView ==
  [][ (fetchPending /\ ~fetchPending' /\ ConversionThrows(response))
        => UNCHANGED << data, globalFilter, sorting, pagination, visibleColumns,
                        filteredRowModel, sortedRowModel >> ]_vars

\* The conversion has thrown while the page size was 20 and a column hidden.
C24_Witness ==
  /\ ~fetchPending
  /\ ConversionThrows(response)
  /\ data = << >>
  /\ pagination.pageSize = 20
  /\ visibleColumns # Headers


\* ------------------------------------------------------------- C21

\* The grid of the export just made, every value as its characters.
exportedStrings ==
  [ r \in DOMAIN exported |->
      [ k \in DOMAIN exported[r] |->
          IF r = 1 THEN HeaderChars(exported[r][k])
          ELSE ValueToString(exported[r][k], tableColumns[k].accessorKey) ] ]

\* str.split(sep) for a separator of one character.
RECURSIVE Split(_, _)
Split(str, sep) ==
  IF \A i \in DOMAIN str : str[i] # sep THEN << str >>
  ELSE LET first == CHOOSE i \in DOMAIN str : str[i] = sep /\ \A j \in 1..(i - 1) : str[j] # sep
       IN  << SubSeq(str, 1, first - 1) >> \o Split(SubSeq(str, first + 1, Len(str)), sep)

\* The number of quoted fields the rest of a line is made of, read from
\* position i on: a field opens with a double quote and runs to the next
\* double quote that is not doubled, fields are separated by one comma;
\* -1 when the line is not a list of quoted fields.
RECURSIVE ScanFields(_, _, _)
ScanFields(line, i, where) ==
  CASE where = "open" ->
         IF i <= Len(line) /\ line[i] = "\"" THEN ScanFields(line, i + 1, "field") ELSE -1
    [] where = "field" ->
         IF i > Len(line) THEN -1
         ELSE IF line[i] # "\"" THEN ScanFields(line, i + 1, "field")
         ELSE IF i < Len(line) /\ line[i + 1] = "\"" THEN ScanFields(line, i + 2, "field")
         ELSE LET rest == ScanFields(line, i + 1, "closed")
              IN  IF rest < 0 THEN -1 ELSE rest + 1
    [] where = "closed" ->
         IF i > Len(line) THEN 0
         ELSE IF line[i] = "," THEN ScanFields(line, i + 1, "open")
         ELSE -1

QuotedFieldCount(line) == IF line = << >> THEN 0 ELSE ScanFields(line, 1, "open")

\* C21: the CSV of an export, split on newlines, has one line per row of the
\* grid, and each line is made of as many quoted fields as the row has cells.
C21_CsvLinesMatchGrid ==
  exported # << >> =>
    LET lines == Split(csvContent(exportedStrings), "\n")
    IN  /\ Len(lines) = Len(exported)
        /\ \A r \in DOMAIN exported : QuotedFieldCount(lines[r]) = Len(exported[r])

\* The encoding as the code writes it: the export of ordinary values is the
\* lines of quoted fields the grid has.
C21_PlainValuesEncode ==
  (exported # << >> /\ response = Payload(3)) =>
    LET lines == Split(csvContent(exportedStrings), "\n")
    IN  /\ Len(lines) = Len(exported)
        /\ \A r \in DOMAIN exported : QuotedFieldCount(lines[r]) = Len(exported[r])


\* ------------------------------------------------------------- C28

\* C28: the checkbox of the header is shown checked only when every row
\* shown is selected, and the rows the counter counts as selected are rows
\* shown.
C28_SelectionFollowsDisplayedRows ==
  /\ selectAllChecked => displayedRowIds \subseteq selectedRows
  /\ selectedRows \subseteq displayedRowIds
  /\ selectedCounter[1] <= selectedCounter[2]

=============================================================================
